---------------------------- MODULE Spec2Model ----------------------------
(***************************************************************************)
(* A model of the weather lookup service (src/weather_service.py) and of   *)
(* the web handlers that call it (src/app/main.py).                        *)
(*                                                                         *)
(* Python values are modelled as one-field records whose field name is the *)
(* Python type, so that values of different types compare unequal:         *)
(*   None -> [none |-> TRUE]      int  -> [int |-> n]                      *)
(*   str  -> [str |-> <<code points>>]                                     *)
(*   float -> [float10 |-> n]  (the value n/10, one decimal digit)         *)
(*   list -> [list |-> <<...>>]   dict -> a function from keys to values   *)
(* A str is the sequence of its Unicode code points, so that strip(),      *)
(* lower(), replace() and title() are computed character by character.     *)
(***************************************************************************)
EXTENDS Integers, Sequences, FiniteSets, TLC

VARIABLES
    environ,         \* os.environ after load_dotenv(): the two credential variables
    api_key,         \* WeatherService.api_key
    yandex_api_key,  \* WeatherService.yandex_api_key
    base_url,        \* WeatherService.base_url
    yandex_url,      \* WeatherService.yandex_url
    city_aliases,    \* WeatherService.city_aliases
    clock,           \* the wall clock, in seconds (datetime.now())
    op,              \* the operation that ran last
    args,            \* its arguments
    calls,           \* the outbound requests it issued, in order
    received,        \* the responses it received, in order
    outcome,         \* what it returned or raised
    looked,          \* what the lookup made by a web handler returned or raised
    first            \* the first lookup made on the service: its op, args, received, outcome

vars == <<environ, api_key, yandex_api_key, base_url, yandex_url, city_aliases,
          clock, op, args, calls, received, outcome, looked, first>>

-----------------------------------------------------------------------------
(* Bounds of the model *)

\* the longest run of whitespace put before and after a city name
MaxPad == 2
\* the last second the wall clock reaches
MaxClock == 1

-----------------------------------------------------------------------------
(* Python values *)

None == [none |-> TRUE]
PyInt(n) == [int |-> n]
PyFloat10(n) == [float10 |-> n]
PyStr(s) == [str |-> s]
PyList(l) == [list |-> l]
EmptyDict == [k \in {} |-> None]

IsNone(v) == v = None
IsStr(v) == DOMAIN v = {"str"}
IsInt(v) == DOMAIN v = {"int"}
IsFloat(v) == DOMAIN v = {"float10"}
IsList(v) == DOMAIN v = {"list"}

\* bool(v): None, 0, 0.0, "", [] and {} are false, everything else is true
Truthy(v) ==
    CASE DOMAIN v = {} -> FALSE
      [] IsNone(v) -> FALSE
      [] IsStr(v) -> v.str # << >>
      [] IsInt(v) -> v.int # 0
      [] IsFloat(v) -> v.float10 # 0
      [] IsList(v) -> v.list # << >>
      [] OTHER -> TRUE

\* a or b
PyOr(a, b) == IF Truthy(a) THEN a ELSE b

\* d.get(k, default)
Get(d, k, default) == IF k \in DOMAIN d THEN d[k] ELSE default

\* round(x) of a number: Python 3 rounds a float half to even and leaves an int alone
PyRound(v) ==
    IF IsInt(v) THEN v
    ELSE LET n == v.float10
             lo == n \div 10
             r == n % 10
         IN  PyInt(IF r < 5 THEN lo
                   ELSE IF r > 5 THEN lo + 1
                   ELSE IF lo % 2 = 0 THEN lo ELSE lo + 1)

-----------------------------------------------------------------------------
(* Strings, as sequences of code points (Basic Latin and Cyrillic) *)

\* the characters str.isspace() accepts, below U+0500
Whitespace == {9, 10, 11, 12, 13, 28, 29, 30, 31, 32, 133, 160}

IsUpper(c) == (c >= 65 /\ c <= 90) \/ (c >= 1024 /\ c <= 1071)
IsLower(c) == (c >= 97 /\ c <= 122) \/ (c >= 1072 /\ c <= 1119)
IsCased(c) == IsUpper(c) \/ IsLower(c)

\* str.lower() and str.upper() of one character
LowerChar(c) ==
    IF c >= 65 /\ c <= 90 THEN c + 32
    ELSE IF c >= 1040 /\ c <= 1071 THEN c + 32
    ELSE IF c >= 1024 /\ c <= 1039 THEN c + 80
    ELSE c

UpperChar(c) ==
    IF c >= 97 /\ c <= 122 THEN c - 32
    ELSE IF c >= 1072 /\ c <= 1103 THEN c - 32
    ELSE IF c >= 1104 /\ c <= 1119 THEN c - 80
    ELSE c

lower(s) == [i \in 1..Len(s) |-> LowerChar(s[i])]

RECURSIVE lstrip(_)
lstrip(s) == IF s # << >> /\ Head(s) \in Whitespace THEN lstrip(Tail(s)) ELSE s

RECURSIVE rstrip(_)
rstrip(s) ==
    IF s # << >> /\ s[Len(s)] \in Whitespace THEN rstrip(SubSeq(s, 1, Len(s) - 1)) ELSE s

strip(s) == rstrip(lstrip(s))

\* s.replace(old, new) for single characters
replace(s, old, new) == [i \in 1..Len(s) |-> IF s[i] = old THEN new ELSE s[i]]

\* s.title(): a cased character is upper-cased after an uncased one (or at the
\* start) and lower-cased after a cased one
title(s) ==
    [i \in 1..Len(s) |->
        IF i > 1 /\ IsCased(s[i - 1]) THEN LowerChar(s[i]) ELSE UpperChar(s[i])]

\* "спб"
s_spb_cyr == <<1089, 1087, 1073>>
\* "spb"
s_spb == <<115, 112, 98>>
\* "питер"
s_piter == <<1087, 1080, 1090, 1077, 1088>>
\* "ленинград"
s_leningrad == <<1083, 1077, 1085, 1080, 1085, 1075, 1088, 1072, 1076>>
\* "мск"
s_msk_cyr == <<1084, 1089, 1082>>
\* "msk"
s_msk == <<109, 115, 107>>
\* "москва"
s_moskva == <<1084, 1086, 1089, 1082, 1074, 1072>>
\* "Санкт-Петербург"
s_SanktPeterburg ==
    <<1057, 1072, 1085, 1082, 1090, 45, 1055, 1077, 1090, 1077, 1088, 1073, 1091, 1088, 1075>>
\* "Москва"
s_Moskva == <<1052, 1086, 1089, 1082, 1074, 1072>>
\* "Ваш город"
s_VashGorod == <<1042, 1072, 1096, 32, 1075, 1086, 1088, 1086, 1076>>
\* "Ясно"
s_Yasno == <<1071, 1089, 1085, 1086>>
\* "Не удалось получить данные"
s_error_text ==
    <<1053, 1077, 32, 1091, 1076, 1072, 1083, 1086, 1089, 1100, 32, 1087, 1086, 1083,
      1091, 1095, 1080, 1090, 1100, 32, 1076, 1072, 1085, 1085, 1099, 1077>>
\* "success"
s_success == <<115, 117, 99, 99, 101, 115, 115>>

-----------------------------------------------------------------------------
(* WeatherService.__init__ *)

OPENWEATHER_URL == "http://api.openweathermap.org/data/2.5/weather"
YANDEX_URL == "https://api.weather.yandex.ru/v2/forecast"
NOMINATIM_URL == "https://nominatim.openstreetmap.org/search"
IP_API_URL == "http://ip-api.com/json/"

CityAliases ==
    (s_spb_cyr :> s_SanktPeterburg) @@ (s_spb :> s_SanktPeterburg)
    @@ (s_piter :> s_SanktPeterburg) @@ (s_leningrad :> s_SanktPeterburg)
    @@ (s_msk_cyr :> s_Moskva) @@ (s_msk :> s_Moskva) @@ (s_moskva :> s_Moskva)

\* the fields of a service constructed with WeatherService(api_key_arg) under env
WeatherService(api_key_arg, env) ==
    [api_key |-> PyOr(api_key_arg, env.OPENWEATHER_API_KEY),
     yandex_api_key |-> env.YANDEX_WEATHER_API_KEY,
     base_url |-> OPENWEATHER_URL,
     yandex_url |-> YANDEX_URL,
     city_aliases |-> CityAliases]

\* the service the variables hold
self ==
    [api_key |-> api_key, yandex_api_key |-> yandex_api_key, base_url |-> base_url,
     yandex_url |-> yandex_url, city_aliases |-> city_aliases]

-----------------------------------------------------------------------------
(* WeatherService._normalize_city_name *)

\* a faulty variant: the alias is looked up without lower-casing the key
normalize_city_name_no_lower(svc, city_name) ==
    IF ~Truthy(city_name) THEN city_name
    ELSE LET key == strip(city_name.str)
         IN  PyStr(Get(svc.city_aliases, key, strip(city_name.str)))

_normalize_city_name(svc, city_name) ==
    IF ~Truthy(city_name) THEN city_name
    ELSE LET key == lower(strip(city_name.str))
         IN  PyStr(Get(svc.city_aliases, key, strip(city_name.str)))

-----------------------------------------------------------------------------
(* Outcomes of a call: a returned value or a raised exception *)

Return(v) == [kind |-> "return", value |-> v]
Raise(e) == [kind |-> "raise", value |-> e]

\* the subclasses of requests.RequestException the model raises
RequestExceptions == {"ConnectionError", "Timeout", "HTTPError"}

\* d[k] = v on a dict
SetItem(d, k, v) == [x \in DOMAIN d \cup {k} |-> IF x = k THEN v ELSE d[x]]

\* the dict d without the key k
DelItem(d, k) == [x \in DOMAIN d \ {k} |-> d[x]]

\* the dict d with d[k] replaced by d[k] without its key j
DelNested(d, k, j) == [d EXCEPT ![k] = DelItem(d[k], j)]

-----------------------------------------------------------------------------
(* datetime.now().strftime("%Y-%m-%d %H:%M:%S") *)

\* datetime.now() when the wall clock reads t seconds
now(t) ==
    [year |-> 2025, month |-> 9, day |-> 6, hour |-> 12, minute |-> 0, second |-> t,
     microsecond |-> 0]

Digit(n) == 48 + n
Pad2(n) == <<Digit((n \div 10) % 10), Digit(n % 10)>>
Pad4(n) == <<Digit((n \div 1000) % 10), Digit((n \div 100) % 10)>> \o Pad2(n)

strftime(dt) ==
    PyStr(Pad4(dt.year) \o <<45>> \o Pad2(dt.month) \o <<45>> \o Pad2(dt.day) \o <<32>>
          \o Pad2(dt.hour) \o <<58>> \o Pad2(dt.minute) \o <<58>> \o Pad2(dt.second))

-----------------------------------------------------------------------------
(* The responses of the outbound calls *)

\* "mock"
s_mock == <<109, 111, 99, 107>>
\* "live"
s_live == <<108, 105, 118, 101>>
\* "live_yandex"
s_live_yandex == <<108, 105, 118, 101, 95, 121, 97, 110, 100, 101, 120>>
\* "Paris"
s_Paris == <<80, 97, 114, 105, 115>>
\* "Nowhereville"
s_Nowhereville == <<78, 111, 119, 104, 101, 114, 101, 118, 105, 108, 108, 101>>
\* "FR"
s_FR == <<70, 82>>
\* "Россия"
s_Rossiya == <<1056, 1086, 1089, 1089, 1080, 1103>>
\* "partly-cloudy"
s_partly_cloudy == <<112, 97, 114, 116, 108, 121, 45, 99, 108, 111, 117, 100, 121>>
\* "ясно"
s_yasno == <<1103, 1089, 1085, 1086>>
\* "fail"
s_fail == <<102, 97, 105, 108>>

\* a call that ends in a network error or a timeout, or in an HTTP response
NetworkFailures == {[exc |-> "ConnectionError"], [exc |-> "Timeout"]}
HttpResponse(status, json) == [status |-> status, json |-> json]

\* requests.get(...), raise_for_status() and json() on the response r of the call
HttpGetJson(r) ==
    IF "exc" \in DOMAIN r THEN Raise(r.exc)
    ELSE IF r.status >= 400 /\ r.status < 600 THEN Raise("HTTPError")
    ELSE Return(r.json)

\* a complete OpenWeatherMap current-weather payload with temperature t (tenths)
OwmPayload(t) ==
    [name |-> PyStr(s_Paris),
     sys |-> [country |-> PyStr(s_FR)],
     main |-> [temp |-> PyFloat10(t), feels_like |-> PyFloat10(t - 12),
               humidity |-> PyInt(70), pressure |-> PyInt(1009)],
     weather |-> PyList(<<[description |-> PyStr(s_yasno)]>>),
     wind |-> [speed |-> PyFloat10(41)]]

\* the complete payloads, the payloads that omit one field, and the empty one
OwmPayloads ==
    LET full == OwmPayload(215)
    IN  {full, OwmPayload(225), EmptyDict,
         DelItem(full, "name"), DelItem(full, "main"),
         [full EXCEPT !.weather = PyList(<< >>)],
         DelNested(full, "main", "temp"), DelNested(full, "main", "humidity"),
         DelNested(full, "wind", "speed")}

\* a complete Yandex forecast payload
YandexPayload ==
    [fact |-> [temp |-> PyInt(-3), feels_like |-> PyInt(-7),
               condition |-> PyStr(s_partly_cloudy), humidity |-> PyInt(81),
               pressure_mm |-> PyInt(745), wind_speed |-> PyFloat10(25)],
     geo_object |-> [locality |-> [name |-> PyStr(s_Moskva)],
                     country |-> [name |-> PyStr(s_Rossiya)]]]

YandexPayloads ==
    LET full == YandexPayload
    IN  {full, EmptyDict, DelItem(full, "fact"), DelItem(full, "geo_object"),
         DelNested(full, "fact", "temp"), DelNested(full, "fact", "condition"),
         DelNested(full, "fact", "pressure_mm"),
         [full EXCEPT !.geo_object.locality = None]}

\* the match lists of the geocoder: none, one match, one match without "lat"
GeocodePayloads ==
    {PyList(<< >>),
     PyList(<<[lat |-> PyStr(<<53, 53, 46, 55>>), lon |-> PyStr(<<51, 55, 46, 54>>)]>>),
     PyList(<<[lon |-> PyStr(<<51, 55, 46, 54>>)]>>)}

ErrorStatuses == {404, 500}

OwmResponses ==
    NetworkFailures \cup {HttpResponse(s, EmptyDict) : s \in ErrorStatuses}
    \cup {HttpResponse(200, p) : p \in OwmPayloads}

YandexResponses ==
    NetworkFailures \cup {HttpResponse(s, EmptyDict) : s \in ErrorStatuses}
    \cup {HttpResponse(200, p) : p \in YandexPayloads}

GeocodeResponses ==
    NetworkFailures \cup {HttpResponse(s, PyList(<< >>)) : s \in ErrorStatuses}
    \cup {HttpResponse(200, p) : p \in GeocodePayloads}

\* whether the call that received r failed: a network error, a timeout or an
\* HTTP error status
Failed(r) == "exc" \in DOMAIN r \/ r.status \in ErrorStatuses

-----------------------------------------------------------------------------
(* float(s) of a string "digits.digit" *)

IsDigit(c) == c >= 48 /\ c <= 57

RECURSIVE ParseDigits(_, _)
ParseDigits(s, acc) ==
    IF s = << >> THEN acc ELSE ParseDigits(Tail(s), 10 * acc + (Head(s) - 48))

\* float(v): the number a str spells, ValueError when it spells none
PyFloat(v) ==
    LET s == v.str
        n == Len(s)
    IN  IF n >= 3 /\ s[n - 1] = 46 /\ \A i \in (1..n) \ {n - 1} : IsDigit(s[i])
        THEN Return(PyFloat10(ParseDigits(SubSeq(s, 1, n - 2) \o <<s[n]>>, 0)))
        ELSE Raise("ValueError")

-----------------------------------------------------------------------------
(* WeatherService._get_weather_mock, _format_weather_data, _format_yandex_data *)

_get_weather_mock(svc, city_name, t) ==
    [city |-> city_name,
     temperature |-> PyInt(22),
     description |-> PyStr(s_Yasno),
     humidity |-> PyInt(65),
     pressure |-> PyInt(1013),
     wind_speed |-> PyFloat10(32),
     timestamp |-> strftime(now(t))]

\* the dict literal is evaluated key by key: round(None) raises TypeError and
\* [][0] raises IndexError
_format_weather_data(svc, data, t) ==
    LET main == Get(data, "main", EmptyDict)
        temp == Get(main, "temp", None)
        feels_like == Get(main, "feels_like", None)
        weather == Get(data, "weather", PyList(<<EmptyDict>>))
    IN  IF IsNone(temp) \/ IsNone(feels_like) THEN Raise("TypeError")
        ELSE IF weather.list = << >> THEN Raise("IndexError")
        ELSE Return(
            [city |-> Get(data, "name", None),
             country |-> Get(Get(data, "sys", EmptyDict), "country", None),
             temperature |-> PyRound(temp),
             feels_like |-> PyRound(feels_like),
             description |->
                 PyStr(title(Get(weather.list[1], "description", PyStr(<< >>)).str)),
             humidity |-> Get(main, "humidity", None),
             pressure |-> Get(main, "pressure", None),
             wind_speed |-> Get(Get(data, "wind", EmptyDict), "speed", None),
             timestamp |-> strftime(now(t))])

_format_yandex_data(svc, data, fallback_city, t) ==
    LET fact == Get(data, "fact", EmptyDict)
        geo == Get(data, "geo_object", EmptyDict)
        locality == Get(PyOr(Get(geo, "locality", None), EmptyDict), "name", None)
        country_name == Get(PyOr(Get(geo, "country", None), EmptyDict), "name", None)
        temperature == Get(fact, "temp", None)
        feels_like == Get(fact, "feels_like", None)
        description ==
            PyStr(title(replace(Get(fact, "condition", PyStr(<< >>)).str, 45, 32)))
        humidity == Get(fact, "humidity", None)
        pressure == Get(fact, "pressure_mm", None)
        wind_speed == Get(fact, "wind_speed", None)
    IN  [city |-> PyOr(PyOr(locality, fallback_city), PyStr(s_VashGorod)),
         country |-> country_name,
         temperature |-> IF ~IsNone(temperature) THEN PyRound(temperature) ELSE None,
         feels_like |-> IF ~IsNone(feels_like) THEN PyRound(feels_like) ELSE None,
         description |-> description,
         humidity |-> humidity,
         pressure |-> pressure,
         wind_speed |-> wind_speed,
         timestamp |-> strftime(now(t))]

-----------------------------------------------------------------------------
(* The lookups.  Each operator takes the responses the outbound calls would  *)
(* receive and yields what the method returns or raises (ret), the requests  *)
(* it issued (calls) and the responses it consumed (received).               *)

Ran(ret, cs, rs) == [ret |-> ret, calls |-> cs, received |-> rs]

\* a faulty variant: the handler is missing and the exception reaches the caller
ExceptNothing(r) == r

\* try: <r> except requests.RequestException: return None
Try(r) == IF r.kind = "raise" /\ r.value \in RequestExceptions THEN Return(None) ELSE r

\* a faulty variant: a failed forecast call is tried a second time
get_yandex_by_coords_retry(svc, latitude, longitude, fallback_city, fc, t) ==
    LET call == [url |-> svc.yandex_url,
                 headers |-> [X_Yandex_Weather_Key |-> svc.yandex_api_key],
                 params |-> [lat |-> latitude, lon |-> longitude, lang |-> "ru"],
                 timeout |-> 10]
        resp == HttpGetJson(fc)
        body == IF resp.kind = "raise" THEN resp
                ELSE Return(SetItem(_format_yandex_data(svc, resp.value, fallback_city, t),
                                    "source", PyStr(s_live_yandex)))
    IN  IF Failed(fc) THEN Ran(Try(body), <<call, call>>, <<fc, fc>>)
        ELSE Ran(Try(body), <<call>>, <<fc>>)

_get_yandex_by_coords(svc, latitude, longitude, fallback_city, fc, t) ==
    LET call == [url |-> svc.yandex_url,
                 headers |-> [X_Yandex_Weather_Key |-> svc.yandex_api_key],
                 params |-> [lat |-> latitude, lon |-> longitude, lang |-> "ru"],
                 timeout |-> 10]
        resp == HttpGetJson(fc)
        body == IF resp.kind = "raise" THEN resp
                ELSE Return(SetItem(_format_yandex_data(svc, resp.value, fallback_city, t),
                                    "source", PyStr(s_live_yandex)))
    IN  Ran(Try(body), <<call>>, <<fc>>)

_geocode_city(svc, city_name_arg, geo) ==
    LET city_name == _normalize_city_name(svc, city_name_arg)
        call == [url |-> NOMINATIM_URL,
                 params |-> [q |-> city_name, format |-> "json", limit |-> 1,
                             accept_language |-> "ru"],
                 headers |-> [User_Agent |-> "weather-parser-app/1.0"],
                 timeout |-> 10]
        resp == HttpGetJson(geo)
        body ==
            IF resp.kind = "raise" THEN resp
            ELSE IF ~Truthy(resp.value) THEN Return(None)
            ELSE LET item == resp.value.list[1]
                 IN  IF "lat" \notin DOMAIN item THEN Raise("KeyError")
                     ELSE LET lat == PyFloat(item.lat)
                          IN  IF lat.kind = "raise" THEN lat
                              ELSE IF "lon" \notin DOMAIN item THEN Raise("KeyError")
                              ELSE LET lon == PyFloat(item.lon)
                                   IN  IF lon.kind = "raise" THEN lon
                                       ELSE Return([lat |-> lat.value, lon |-> lon.value])
    IN  Ran(Try(body), <<call>>, <<geo>>)

\* a faulty variant: a city the geocoder does not find is looked up at (0.0, 0.0)
get_yandex_by_city_no_check(svc, city_name, geo, fc, t) ==
    LET g == _geocode_city(svc, city_name, geo)
    IN  IF g.ret.kind = "raise" THEN g
        ELSE LET coords == IF Truthy(g.ret.value) THEN g.ret.value
                           ELSE [lat |-> PyFloat10(0), lon |-> PyFloat10(0)]
                 y == _get_yandex_by_coords(svc, coords.lat, coords.lon, city_name, fc, t)
             IN  Ran(y.ret, g.calls \o y.calls, g.received \o y.received)

_get_yandex_by_city(svc, city_name, geo, fc, t) ==
    LET g == _geocode_city(svc, city_name, geo)
    IN  IF g.ret.kind = "raise" THEN g
        ELSE IF ~Truthy(g.ret.value) THEN Ran(Return(None), g.calls, g.received)
        ELSE LET coords == g.ret.value
                 y == _get_yandex_by_coords(svc, coords.lat, coords.lon, city_name, fc, t)
             IN  Ran(y.ret, g.calls \o y.calls, g.received \o y.received)

\* the request to OpenWeatherMap and the formatting of its answer, shared by
\* get_weather_by_city and get_weather_by_coords
OpenWeatherCall(svc, params, fc, t) ==
    LET call == [url |-> svc.base_url, params |-> params, timeout |-> 10]
        resp == HttpGetJson(fc)
        body ==
            IF resp.kind = "raise" THEN resp
            ELSE LET formatted == _format_weather_data(svc, resp.value, t)
                 IN  IF formatted.kind = "raise" THEN formatted
                     ELSE Return(SetItem(formatted.value, "source", PyStr(s_live)))
    IN  Ran(Try(body), <<call>>, <<fc>>)

\* a faulty variant: when the lookup fails, the record the last lookup returned is
\* served again
get_weather_by_coords_stale(svc, latitude, longitude, fallback_city, fc, t) ==
    LET r == IF Truthy(svc.yandex_api_key)
             THEN _get_yandex_by_coords(svc, latitude, longitude, fallback_city, fc, t)
             ELSE IF ~Truthy(svc.api_key)
             THEN Ran(Return(SetItem(_get_weather_mock(svc, PyOr(fallback_city,
                                                                 PyStr(s_VashGorod)), t),
                                     "source", PyStr(s_mock))), << >>, << >>)
             ELSE OpenWeatherCall(svc, [lat |-> latitude, lon |-> longitude,
                                        appid |-> svc.api_key, units |-> "metric",
                                        lang |-> "ru"], fc, t)
    IN  IF r.ret = Return(None) /\ outcome.kind = "return"
        THEN Ran(outcome, r.calls, r.received)
        ELSE r

\* a faulty variant: the OpenWeatherMap credential is tried before the Yandex one
get_weather_by_city_owm_first(svc, city_name_arg, geo, fc, t) ==
    LET city_name == _normalize_city_name(svc, city_name_arg)
    IN  IF Truthy(svc.api_key)
        THEN OpenWeatherCall(svc, [q |-> city_name, appid |-> svc.api_key,
                                   units |-> "metric", lang |-> "ru"], fc, t)
        ELSE IF Truthy(svc.yandex_api_key)
        THEN _get_yandex_by_city(svc, city_name, geo, fc, t)
        ELSE Ran(Return(SetItem(_get_weather_mock(svc, city_name, t),
                                "source", PyStr(s_mock))), << >>, << >>)

\* a faulty variant: without a credential the lookup gives up instead of mocking
get_weather_by_city_no_mock(svc, city_name_arg, geo, fc, t) ==
    LET city_name == _normalize_city_name(svc, city_name_arg)
    IN  IF Truthy(svc.yandex_api_key)
        THEN _get_yandex_by_city(svc, city_name, geo, fc, t)
        ELSE IF ~Truthy(svc.api_key)
        THEN Ran(Return(None), << >>, << >>)
        ELSE OpenWeatherCall(svc, [q |-> city_name, appid |-> svc.api_key,
                                   units |-> "metric", lang |-> "ru"], fc, t)

get_weather_by_city(svc, city_name_arg, geo, fc, t) ==
    LET city_name == _normalize_city_name(svc, city_name_arg)
    IN  IF Truthy(svc.yandex_api_key)
        THEN _get_yandex_by_city(svc, city_name, geo, fc, t)
        ELSE IF ~Truthy(svc.api_key)
        THEN Ran(Return(SetItem(_get_weather_mock(svc, city_name, t),
                                "source", PyStr(s_mock))), << >>, << >>)
        ELSE OpenWeatherCall(svc, [q |-> city_name, appid |-> svc.api_key,
                                   units |-> "metric", lang |-> "ru"], fc, t)

get_weather_by_coords(svc, latitude, longitude, fallback_city, fc, t) ==
    IF Truthy(svc.yandex_api_key)
    THEN _get_yandex_by_coords(svc, latitude, longitude, fallback_city, fc, t)
    ELSE IF ~Truthy(svc.api_key)
    THEN Ran(Return(SetItem(_get_weather_mock(svc, PyOr(fallback_city, PyStr(s_VashGorod)), t),
                            "source", PyStr(s_mock))), << >>, << >>)
    ELSE OpenWeatherCall(svc, [lat |-> latitude, lon |-> longitude, appid |-> svc.api_key,
                               units |-> "metric", lang |-> "ru"], fc, t)

-----------------------------------------------------------------------------
(* get_location_by_ip *)

\* a faulty variant: the "status" field of the answer is not looked at
get_location_by_ip_any_status(ip) ==
    LET call == [url |-> IP_API_URL, timeout |-> 5]
        resp == HttpGetJson(ip)
        body ==
            IF resp.kind = "raise" THEN resp
            ELSE Return([city |-> PyOr(Get(resp.value, "city", None), PyStr(s_VashGorod)),
                         lat |-> Get(resp.value, "lat", None),
                         lon |-> Get(resp.value, "lon", None)])
    IN  Ran(Try(body), <<call>>, <<ip>>)

get_location_by_ip(ip) ==
    LET call == [url |-> IP_API_URL, timeout |-> 5]
        resp == HttpGetJson(ip)
        body ==
            IF resp.kind = "raise" THEN resp
            ELSE IF Get(resp.value, "status", None) = PyStr(s_success)
            THEN Return([city |-> PyOr(Get(resp.value, "city", None), PyStr(s_VashGorod)),
                         lat |-> Get(resp.value, "lat", None),
                         lon |-> Get(resp.value, "lon", None)])
            ELSE Return(None)
    IN  Ran(Try(body), <<call>>, <<ip>>)

-----------------------------------------------------------------------------
(* The web handlers of src/app/main.py *)

JSONResponse(content, status_code) == [content |-> content, status_code |-> status_code]

\* what a handler does with the outcome r of its lookup: an exception the
\* lookup raised is not caught by the handler
\* a faulty variant: the handler answers with whatever the lookup returned
api_weather_unchecked(r) ==
    IF r.kind = "raise" THEN r ELSE Return(JSONResponse(r.value, 200))

api_weather(r) ==
    IF r.kind = "raise" THEN r
    ELSE IF ~Truthy(r.value)
    THEN Return(JSONResponse([error |-> PyStr(s_error_text)], 502))
    ELSE Return(JSONResponse(r.value, 200))

\* index: the lookup by city name when q is given, else by the location of the IP
index(svc, q, ip, geo, fc, t) ==
    IF Truthy(q) THEN get_weather_by_city(svc, q, geo, fc, t)
    ELSE LET l == get_location_by_ip(ip)
             loc == l.ret.value
         IN  IF l.ret.kind = "raise" THEN l
             ELSE IF Truthy(loc) /\ ~IsNone(loc.lat) /\ ~IsNone(loc.lon)
             THEN LET w == get_weather_by_coords(svc, loc.lat, loc.lon, loc.city, fc, t)
                  IN  Ran(w.ret, l.calls \o w.calls, l.received \o w.received)
             ELSE Ran(Return(None), l.calls, l.received)

TemplateResponse(name, context) == [template |-> name, context |-> context]

-----------------------------------------------------------------------------
(* The inputs *)

\* "key"
s_key == <<107, 101, 121>>

\* a credential variable is unset, set to the empty string or set to a key
KeyValues == {None, PyStr(<< >>), PyStr(s_key)}
Environs == [OPENWEATHER_API_KEY : KeyValues, YANDEX_WEATHER_API_KEY : KeyValues]

\* " MSK "
s_MSK_padded == <<32, 77, 83, 75, 32>>

CityNames == {PyStr(s_Nowhereville), PyStr(s_MSK_padded), PyStr(<< >>)}
FallbackCities == {None, PyStr(s_Paris)}
Latitudes == {PyFloat10(557)}
Longitudes == {PyFloat10(376)}

\* the forecast endpoint that is called may answer with any of these
ForecastResponses == OwmResponses \cup YandexResponses

\* the answers of the IP geolocation service
IpPayload ==
    [status |-> PyStr(s_success), city |-> PyStr(s_Paris),
     lat |-> PyFloat10(488), lon |-> PyFloat10(23)]

IpPayloads ==
    {IpPayload, EmptyDict, [IpPayload EXCEPT !.status = PyStr(s_fail)],
     DelItem(IpPayload, "city"), [IpPayload EXCEPT !.city = PyStr(<< >>)],
     DelItem(IpPayload, "lat"), [IpPayload EXCEPT !.lon = None]}

IpResponses ==
    NetworkFailures \cup {HttpResponse(s, EmptyDict) : s \in ErrorStatuses}
    \cup {HttpResponse(200, p) : p \in IpPayloads}

\* the few inputs of the specification that remembers the first lookup
FewCityNames == {PyStr(s_Nowhereville), PyStr(s_MSK_padded)}
FewGeocodeResponses ==
    {r \in GeocodeResponses :
        r = [exc |-> "Timeout"]
        \/ ("json" \in DOMAIN r /\ r.status = 200
            /\ \A i \in 1..Len(r.json.list) : "lat" \in DOMAIN r.json.list[i])}
FewForecastResponses ==
    {[exc |-> "ConnectionError"], HttpResponse(200, OwmPayload(215)),
     HttpResponse(200, YandexPayload),
     HttpResponse(200, DelNested(YandexPayload, "fact", "temp"))}

\* the city names given to _normalize_city_name: a word in any letter case
\* between two runs of whitespace
PadChars == {32, 9}
RECURSIVE PadsOfLen(_)
PadsOfLen(n) ==
    IF n = 0 THEN {<< >>} ELSE {<<c>> \o p : c \in PadChars, p \in PadsOfLen(n - 1)}
Pads == UNION {PadsOfLen(n) : n \in 0..MaxPad}

\* "mskx"
s_mskx == <<109, 115, 107, 120>>
\* "sp b"
s_sp_b == <<115, 112, 32, 98>>

Words == DOMAIN CityAliases \cup {s_Paris, s_mskx, s_sp_b, s_Moskva, << >>}

\* the word w with the letters at the positions of mask in upper case
Cased(w, mask) == [i \in 1..Len(w) |-> IF i \in mask THEN UpperChar(w[i]) ELSE w[i]]

-----------------------------------------------------------------------------
(* The state machine *)

\* datetime.now() reads a clock that never runs backwards
Times == clock..MaxClock

\* the lookup without the time stamp of its record
SansTimestamp(r) ==
    IF r.kind = "return" /\ "timestamp" \in DOMAIN r.value
    THEN Return(DelItem(r.value, "timestamp")) ELSE r

Construct(envs, api_key_args) ==
    /\ environ \in envs
    /\ \E a \in api_key_args :
         LET svc == WeatherService(a, environ)
         IN  /\ api_key = svc.api_key
             /\ yandex_api_key = svc.yandex_api_key
             /\ base_url = svc.base_url
             /\ yandex_url = svc.yandex_url
             /\ city_aliases = svc.city_aliases
    /\ clock = 0
    /\ op = "__init__"
    /\ args = << >>
    /\ calls = << >>
    /\ received = << >>
    /\ outcome = Return(None)
    /\ looked = Return(None)
    /\ first = None

Init == Construct(Environs, {None})

\* the effect of a method call on the service: r is what the method did
Called(name, arguments, r, t, remember) ==
    /\ op' = name
    /\ args' = arguments
    /\ calls' = r.calls
    /\ received' = r.received
    /\ outcome' = r.ret
    /\ looked' = r.ret
    /\ clock' = t
    /\ first' = IF remember /\ first = None
                THEN [op |-> name, args |-> arguments, received |-> r.received,
                      outcome |-> SansTimestamp(r.ret), at |-> t]
                ELSE first
    /\ UNCHANGED <<environ, api_key, yandex_api_key, base_url, yandex_url, city_aliases>>

GetWeatherByCityOf(cities, geos, fcs, remember) ==
    \E city_name \in cities, geo \in geos, fc \in fcs, t \in Times :
        Called("get_weather_by_city", <<city_name>>,
               get_weather_by_city(self, city_name, geo, fc, t), t, remember)

GetWeatherByCoordsOf(fcs, remember) ==
    \E latitude \in Latitudes, longitude \in Longitudes, fallback_city \in FallbackCities,
       fc \in fcs, t \in Times :
        Called("get_weather_by_coords", <<latitude, longitude, fallback_city>>,
               get_weather_by_coords(self, latitude, longitude, fallback_city, fc, t),
               t, remember)

GetWeatherByCity == GetWeatherByCityOf(CityNames, GeocodeResponses, ForecastResponses, FALSE)
GetWeatherByCoords == GetWeatherByCoordsOf(ForecastResponses, FALSE)

Next == GetWeatherByCity \/ GetWeatherByCoords

Spec == Init /\ [][Next]_vars

\* the same service with few inputs, remembering its first lookup
GetWeatherByCityFew ==
    GetWeatherByCityOf(FewCityNames, FewGeocodeResponses, FewForecastResponses, TRUE)
GetWeatherByCoordsFew == GetWeatherByCoordsOf(FewForecastResponses, TRUE)

NextFew == GetWeatherByCityFew \/ GetWeatherByCoordsFew

SpecFew == Init /\ [][NextFew]_vars

\* _normalize_city_name on its own: the argument is drawn first, then the
\* method is applied to it
InitNormalize ==
    /\ environ = [OPENWEATHER_API_KEY |-> None, YANDEX_WEATHER_API_KEY |-> None]
    /\ api_key = None
    /\ yandex_api_key = None
    /\ base_url = OPENWEATHER_URL
    /\ yandex_url = YANDEX_URL
    /\ city_aliases = CityAliases
    /\ clock = 0
    /\ op = "call"
    /\ \E w \in Words, left \in Pads, right \in Pads :
         \E mask \in SUBSET (1..Len(w)) :
             args = <<PyStr(left \o Cased(w, mask) \o right)>>
    /\ calls = << >>
    /\ received = << >>
    /\ outcome = Return(None)
    /\ looked = Return(None)
    /\ first = None

NormalizeCityName ==
    /\ op = "call"
    /\ Called("_normalize_city_name", args,
              Ran(Return(_normalize_city_name(self, args[1])), << >>, << >>), clock, FALSE)

SpecNormalize == InitNormalize /\ [][NormalizeCityName]_vars

\* the web handlers: each request constructs its own WeatherService()
Handled(name, arguments, r, response, t) ==
    /\ op' = name
    /\ args' = arguments
    /\ calls' = r.calls
    /\ received' = r.received
    /\ looked' = r.ret
    /\ outcome' = response
    /\ clock' = t
    /\ UNCHANGED <<environ, api_key, yandex_api_key, base_url, yandex_url, city_aliases,
                   first>>

ApiWeather ==
    \E city \in CityNames, geo \in FewGeocodeResponses, fc \in FewForecastResponses,
       t \in Times :
        LET svc == WeatherService(None, environ)
            r == get_weather_by_city(svc, city, geo, fc, t)
        IN  Handled("api_weather", <<city>>, r, api_weather(r.ret), t)

\* only the requests the handler makes are answered: the geocoder when q is
\* given, the IP geolocation service when it is not
Index ==
    \E q \in {None} \cup FewCityNames, fc \in FewForecastResponses, t \in Times :
      \E ip \in IF Truthy(q) THEN {[exc |-> "Timeout"]} ELSE IpResponses,
         geo \in IF Truthy(q) THEN FewGeocodeResponses ELSE {[exc |-> "Timeout"]} :
        LET svc == WeatherService(None, environ)
            r == index(svc, q, ip, geo, fc, t)
            response ==
                IF r.ret.kind = "raise" THEN r.ret
                ELSE Return(TemplateResponse("index.html",
                         [weather |-> r.ret.value, query |-> PyOr(q, PyStr(<< >>))]))
        IN  Handled("index", <<q>>, r, response, t)

GetLocationByIp ==
    \E ip \in IpResponses :
        LET r == get_location_by_ip(ip)
        IN  Handled("get_location_by_ip", << >>, r, r.ret, clock)

NextWeb == ApiWeather \/ Index \/ GetLocationByIp

SpecWeb == Init /\ [][NextWeb]_vars

-----------------------------------------------------------------------------
(* The claims *)

IsLookup == op \in {"get_weather_by_city", "get_weather_by_coords"}
ReturnedRecord == outcome.kind = "return" /\ outcome.value # None
ReturnedAbsent == outcome = Return(None)
CalledUrls == [i \in 1..Len(calls) |-> calls[i].url]
YandexConfigured == Truthy(yandex_api_key)
OpenWeatherConfigured == ~Truthy(yandex_api_key) /\ Truthy(api_key)
NothingConfigured == ~Truthy(yandex_api_key) /\ ~Truthy(api_key)

\* C1: a lookup with a Yandex credential never calls OpenWeatherMap and any
\* record it returns has source live_yandex; else with an OpenWeatherMap
\* credential any record it returns has source live; else it returns a record
\* with source mock.
C1_ProviderPriority ==
    IsLookup =>
        IF YandexConfigured
        THEN /\ \A i \in 1..Len(calls) : calls[i].url # base_url
             /\ ReturnedRecord => outcome.value.source = PyStr(s_live_yandex)
        ELSE IF OpenWeatherConfigured
        THEN ReturnedRecord => outcome.value.source = PyStr(s_live)
        ELSE ReturnedRecord /\ outcome.value.source = PyStr(s_mock)

\* both credentials are configured and the lookup by city returned a record
C1_Witness ==
    /\ op = "get_weather_by_city"
    /\ Truthy(yandex_api_key) /\ Truthy(api_key)
    /\ ReturnedRecord
    /\ outcome.value.source = PyStr(s_live_yandex)

RequiredFields ==
    {"city", "temperature", "description", "humidity", "pressure", "wind_speed",
     "timestamp", "source"}

FullyPopulated(record) ==
    /\ RequiredFields \subseteq DOMAIN record
    /\ \A f \in RequiredFields : ~IsNone(record[f])

\* C3: a lookup returns absent or a record whose non-optional fields are all
\* present and not null, whatever the provider answered.
C3_FullyPopulatedOrAbsent ==
    IsLookup => \/ ReturnedAbsent
                \/ outcome.kind = "return" /\ FullyPopulated(outcome.value)

\* C4: without any credential the lookup by city returns a record with source
\* mock, temperature 22, description "Ясно", humidity 65, pressure 1013 and wind
\* speed 3.2, whatever the city name; only city and timestamp vary.
C4_MockRecord ==
    (op = "get_weather_by_city" /\ NothingConfigured) =>
        /\ outcome.kind = "return"
        /\ {"city", "timestamp"} \subseteq DOMAIN outcome.value
        /\ DelItem(DelItem(outcome.value, "city"), "timestamp")
             = [temperature |-> PyInt(22), description |-> PyStr(s_Yasno),
                humidity |-> PyInt(65), pressure |-> PyInt(1013),
                wind_speed |-> PyFloat10(32), source |-> PyStr(s_mock)]

\* the mock record for " MSK ", at a later second than the construction
C4_Witness ==
    /\ op = "get_weather_by_city"
    /\ NothingConfigured
    /\ args = <<PyStr(s_MSK_padded)>>
    /\ clock > 0
    /\ outcome.kind = "return"
    /\ outcome.value.city = PyStr(s_Moskva)

\* whether the geocoder's answer r gave no coordinates: the call failed or
\* the match list is empty
GeocodeMiss(r) == Failed(r) \/ r.json = PyList(<< >>)

\* C5: the outbound calls of a lookup are: none in mock mode; one call to
\* OpenWeatherMap on that path; one forecast call for a Yandex lookup by
\* coordinates; for a Yandex lookup by city one geocoding call, followed by one
\* forecast call unless the geocoding gave no coordinates.
C5_CallSequence ==
    IsLookup =>
        /\ CalledUrls \in {<< >>, <<base_url>>, <<yandex_url>>, <<NOMINATIM_URL>>,
                           <<NOMINATIM_URL, yandex_url>>}
        /\ NothingConfigured => CalledUrls = << >>
        /\ OpenWeatherConfigured => CalledUrls = <<base_url>>
        /\ (YandexConfigured /\ op = "get_weather_by_coords") => CalledUrls = <<yandex_url>>
        /\ (YandexConfigured /\ op = "get_weather_by_city") =>
              /\ CalledUrls \in {<<NOMINATIM_URL>>, <<NOMINATIM_URL, yandex_url>>}
              /\ GeocodeMiss(received[1]) => CalledUrls = <<NOMINATIM_URL>>
              /\ CalledUrls = <<NOMINATIM_URL>> => GeocodeMiss(received[1]) \/ outcome.kind = "raise"

\* a geocoding call followed by a forecast call that failed
C5_Witness ==
    /\ op = "get_weather_by_city"
    /\ CalledUrls = <<NOMINATIM_URL, yandex_url>>
    /\ Failed(received[2])

\* C6: with a Yandex credential, a lookup by city whose geocoding call fails
\* or finds no match returns absent and never calls the forecast endpoint.
C6_GeocodeMissGivesAbsent ==
    (op = "get_weather_by_city" /\ YandexConfigured /\ GeocodeMiss(received[1])) =>
        /\ ReturnedAbsent
        /\ \A i \in 1..Len(calls) : calls[i].url # yandex_url

\* the geocoder answered 200 with an empty match list
C6_Witness ==
    /\ op = "get_weather_by_city"
    /\ YandexConfigured
    /\ received = <<HttpResponse(200, PyList(<< >>))>>
    /\ ReturnedAbsent

\* x is s without the whitespace around it
Trimmed(s, x) ==
    \E i \in 0..Len(s) : \E j \in i..Len(s) :
        /\ x = SubSeq(s, i + 1, j)
        /\ \A k \in (1..i) \cup ((j + 1)..Len(s)) : s[k] \in Whitespace
        /\ x # << >> => x[1] \notin Whitespace /\ x[Len(x)] \notin Whitespace

\* x is the lower-case word w with some of its letters in upper case
CaseVariant(x, w) ==
    /\ Len(x) = Len(w)
    /\ \A k \in 1..Len(w) : x[k] = w[k] \/ x[k] = UpperChar(w[k])

\* s is the alias w in some letter case, with whitespace around it
SpellsAlias(s, w) ==
    \E i \in 0..Len(s) : \E j \in i..Len(s) :
        /\ CaseVariant(SubSeq(s, i + 1, j), w)
        /\ \A k \in (1..i) \cup ((j + 1)..Len(s)) : s[k] \in Whitespace

SaintPetersburgAliases == {s_spb_cyr, s_spb, s_piter, s_leningrad}
MoscowAliases == {s_msk_cyr, s_msk, s_moskva}

\* C7: _normalize_city_name gives the canonical name for an alias in any
\* letter case and with any whitespace around it, and any other name trimmed
\* with its casing unchanged.
C7_Normalization ==
    op = "_normalize_city_name" =>
        LET s == args[1].str
            result == outcome.value.str
        IN  IF \E w \in SaintPetersburgAliases : SpellsAlias(s, w)
            THEN result = s_SanktPeterburg
            ELSE IF \E w \in MoscowAliases : SpellsAlias(s, w)
            THEN result = s_Moskva
            ELSE Trimmed(s, result)

\* an alias of Saint Petersburg with upper-case letters and whitespace before it
C7_Witness ==
    /\ op = "_normalize_city_name"
    /\ args[1].str # << >>
    /\ args[1].str[1] \in Whitespace
    /\ \E k \in 1..Len(args[1].str) : IsUpper(args[1].str[k])
    /\ outcome.value.str = s_SanktPeterburg

\* C8: /api/weather answers 502 with the fixed error payload exactly when the
\* lookup returned absent, and answers 200 with the record the lookup returned
\* otherwise.
C8_ApiWeather ==
    op = "api_weather" =>
        /\ outcome = Return(JSONResponse([error |-> PyStr(s_error_text)], 502))
             <=> looked = Return(None)
        /\ (looked.kind = "return" /\ looked.value # None) =>
              outcome = Return(JSONResponse(looked.value, 200))
        /\ (outcome.kind = "return" /\ outcome.value.status_code # 200) =>
              outcome.value = JSONResponse([error |-> PyStr(s_error_text)], 502)

\* the lookup behind /api/weather returned absent after a failed call
C8_Witness ==
    /\ op = "api_weather"
    /\ looked = Return(None)
    /\ \E i \in 1..Len(received) : Failed(received[i])
    /\ outcome.value.status_code = 502

\* whether the geolocation service answered r with status "success"
IpSuccess(r) == ~Failed(r) /\ Get(r.json, "status", None) = PyStr(s_success)

\* C9 as stated: a failed call or a status other than "success" gives absent;
\* a "success" answer gives a record with a city name and both a latitude and a
\* longitude.
C9_IpLocationAsStated ==
    op = "get_location_by_ip" =>
        IF ~IpSuccess(received[1]) THEN ReturnedAbsent
        ELSE /\ ReturnedRecord
             /\ Truthy(outcome.value.city)
             /\ ~IsNone(outcome.value.lat)
             /\ ~IsNone(outcome.value.lon)

\* C9 as amended: a "success" answer gives a record with a non-empty city name
\* (the placeholder when the answer has none) and the latitude and longitude of
\* the answer, each null when the answer omits it.
C9_IpLocation ==
    op = "get_location_by_ip" =>
        IF ~IpSuccess(received[1]) THEN ReturnedAbsent
        ELSE LET json == received[1].json
             IN  /\ ReturnedRecord
                 /\ DOMAIN outcome.value = {"city", "lat", "lon"}
                 /\ outcome.value.city =
                      IF "city" \in DOMAIN json /\ json.city \notin {None, PyStr(<< >>)}
                      THEN json.city ELSE PyStr(s_VashGorod)
                 /\ outcome.value.lat = IF "lat" \in DOMAIN json THEN json.lat ELSE None
                 /\ outcome.value.lon = IF "lon" \in DOMAIN json THEN json.lon ELSE None

\* a "success" answer without a latitude
C9_Witness ==
    /\ op = "get_location_by_ip"
    /\ IpSuccess(received[1])
    /\ "lat" \notin DOMAIN received[1].json
    /\ ReturnedRecord
    /\ IsNone(outcome.value.lat)

\* C10: lookups leave the service's credentials, URLs and alias table as they
\* are, and a lookup with the query and the responses of the first lookup has,
\* but for the time stamp, the outcome of the first lookup.
C10_Stateless ==
    /\ [][<<api_key, yandex_api_key, base_url, yandex_url, city_aliases>>'
            = <<api_key, yandex_api_key, base_url, yandex_url, city_aliases>>]_vars
    /\ []((/\ first # None
           /\ first.op = op
           /\ first.args = args
           /\ first.received = received) => first.outcome = SansTimestamp(outcome))

\* a later lookup with the inputs of the first one returned a record
C10_Witness ==
    /\ first # None
    /\ first.at < clock
    /\ first.op = op /\ first.args = args /\ first.received = received
    /\ received # << >>
    /\ ReturnedRecord

=============================================================================
